---- MODULE Spec2Model ----
(***************************************************************************)
(* A model of src/scraper.py: one run of scrape_products, a strictly       *)
(* sequential script that loads a listing, scrolls it until the page       *)
(* height is stable, collects the SKUs, and for every SKU extracts the     *)
(* product fields, discovers the image URLs, saves the images as           *)
(* <k>.webp and writes data.txt.  The browser, the network and the file    *)
(* system are the environment: what they return is chosen                  *)
(* nondeterministically from small sets.  Texts are sequences of           *)
(* characters (one-character strings; a multi-character string stands for  *)
(* a literal of the source that holds no whitespace of its own interest).  *)
(***************************************************************************)
EXTENDS Integers, Sequences, FiniteSets, TLC

\* ------------------------------------------------------------------ bounds
MaxCards   == 2   \* product cards on the listing page
MaxThumbs  == 2   \* thumbnail elements on a product page
MaxScrolls == 3   \* scrolls after which the page height no longer changes
MaxHeight  == 2   \* distinct page heights

\* ------------------------------------------------------- text primitives
NoValue == <<"<unset>">>    \* a text that is not there: an unbound local, a missing element
NoFlag  == "<unset>"        \* in_stock before it is bound
NoImage == "<no image>"     \* no .image-container img element
NoSpan  == <<"<no span>">>  \* a product card without a "small span" element

IsSpace(c) == c \in {" ", "\n"}

RECURSIVE LStrip(_)
LStrip(s) == IF s = <<>> THEN s
             ELSE IF IsSpace(Head(s)) THEN LStrip(Tail(s)) ELSE s

RECURSIVE RStrip(_)
RStrip(s) == IF s = <<>> THEN s
             ELSE IF IsSpace(s[Len(s)]) THEN RStrip(SubSeq(s, 1, Len(s) - 1)) ELSE s

\* str.strip()
Strip(s) == RStrip(LStrip(s))

\* str.rstrip(":")
RECURSIVE RStripColon(_)
RStripColon(s) == IF s = <<>> THEN s
                  ELSE IF s[Len(s)] = ":" THEN RStripColon(SubSeq(s, 1, Len(s) - 1)) ELSE s

RECURSIVE TakeWord(_)
TakeWord(s) == IF s = <<>> \/ IsSpace(Head(s)) THEN <<>>
               ELSE <<Head(s)>> \o TakeWord(Tail(s))

\* str.split()[0]: the first whitespace-delimited token; the index raises
\* IndexError when the text holds no token.
SplitIsEmpty(s) == LStrip(s) = <<>>
FirstToken(s)   == TakeWord(LStrip(s))

LowerChar(c) == CASE c = "F" -> "f" [] c = "S" -> "s" [] c = "I" -> "i"
                  [] c = "L" -> "l" [] c = "A" -> "a" [] c = "G" -> "g"
                  [] c = "E" -> "e" [] c = "R" -> "r" [] c = "N" -> "n"
                  [] c = "U" -> "u" [] c = "T" -> "t" [] OTHER -> c
\* str.lower()
Lower(s) == [i \in DOMAIN s |-> LowerChar(s[i])]

\* needle in hay
Contains(needle, hay) ==
    \E i \in 0..(Len(hay) - Len(needle)) : SubSeq(hay, i + 1, i + Len(needle)) = needle

\* "\n".join(lines)
RECURSIVE Join(_)
Join(lines) == IF lines = <<>> THEN <<>>
               ELSE IF Len(lines) = 1 THEN lines[1]
               ELSE lines[1] \o <<"\n">> \o Join(Tail(lines))

\* The lines of a text file: its content cut at every line feed.
RECURSIVE SplitLines(_)
SplitLines(s) ==
    IF \A i \in DOMAIN s : s[i] # "\n" THEN <<s>>
    ELSE LET k == CHOOSE i \in DOMAIN s : s[i] = "\n" /\ \A j \in 1..(i - 1) : s[j] # "\n"
         IN  <<SubSeq(s, 1, k - 1)>> \o SplitLines(SubSeq(s, k + 1, Len(s)))

Range(s) == {s[i] : i \in DOMAIN s}

RECURSIVE SeqsUpTo(_, _)
SeqsUpTo(S, n) == IF n = 0 THEN {<<>>}
                  ELSE SeqsUpTo(S, n - 1) \cup
                       {Append(s, x) : s \in {t \in SeqsUpTo(S, n - 1) : Len(t) = n - 1}, x \in S}

\* ------------------------------------------- what the environment returns
Heights == 1..MaxHeight

\* Text of a card's "small span" (or NoSpan when the card has none).
CardTexts == {<<"a">>, <<" ", "b", " ">>}
Cards     == CardTexts \cup {NoSpan}

\* Texts of "lib-availability a".
FinnsILager == <<"F", "i", "n", "n", "s", " ", "i", " ", "l", "a", "g", "e", "r">>
SlutILager  == <<"S", "l", "u", "t", " ", "i", " ", "l", "a", "g", "e", "r">>
LagerUpper  == <<"L", "A", "G", "E", "R">>
Slut        == <<"S", "l", "u", "t">>

\* .attribute-table: whether it is found, and its rows, each a sequence of
\* cell texts.
NoTable  == [found |-> FALSE, rows |-> <<>>]
OneTable == [found |-> TRUE,
             rows  |-> << << <<"L", ":">>, <<" ", "v">> >>, << <<"x">> >> >>]

\* The product pages the site serves: the text of h1.product-name, of the
\* first .product-description (NoValue: no such element), of
\* "lib-price-inside span span" and of "lib-availability a", and the
\* attribute table.  The fields are read independently of each other, so the
\* pages only have to show every kind of field value once.
PageIds == {"A", "B", "C", "D", "E"}
NoPage  == "-"
PageOf(id) ==
    CASE id = "A" -> [h1 |-> <<" ", "T">>, description |-> NoValue,
                      price |-> <<"9", " ", "k", "r">>, availability |-> FinnsILager,
                      table |-> NoTable]
      [] id = "B" -> [h1 |-> <<"T", "\n", "x">>, description |-> <<"d">>,
                      price |-> <<" ", "9">>, availability |-> SlutILager,
                      table |-> OneTable]
      [] id = "C" -> [h1 |-> <<"T">>, description |-> <<" ">>,
                      price |-> <<"9", "\n", "k", "r">>, availability |-> Slut,
                      table |-> OneTable]
      [] id = "D" -> [h1 |-> <<"T">>, description |-> <<"d">>,
                      price |-> <<"9">>, availability |-> LagerUpper,
                      table |-> NoTable]
      [] id = "E" -> [h1 |-> <<"T">>, description |-> NoValue,
                      price |-> <<" ">>, availability |-> FinnsILager,
                      table |-> NoTable]

\* src of the main image.  A src of None is one more value of the list whose
\* download always fails, which SaveImageFail covers for every URL.
Urls == {"u1", "u2"}

\* ------------------------------------------------------------------ state
VARIABLES
    pc,                 \* the step of the run that was reached
    failure,            \* the step whose exception is propagating ("none": none)
    quits,              \* calls of driver.quit()
    last_height,        \* scroll_to_load_all: last_height
    heights,            \* scroll_to_load_all: every height read, in order
    product_cards,      \* the cards found on the listing
    skus,               \* the SKUs collected from them
    index,              \* enumerate(skus, start=1): position of the current SKU
    page,               \* the product page the browser shows
    title, description, price, availability_text, in_stock, extra_attributes,
    image_urls,         \* the URL list of the current product
    observed,           \* image discovery: every src read so far, in order
    thumbnails,         \* thumbnail elements still to iterate
    outcomes,           \* per image URL attempted: TRUE when it was saved
    dirs,               \* product directories under OUTPUT_DIR
    webp,               \* <<sku, k>>: OUTPUT_DIR/<sku>/<k>.webp exists
    data                \* sku -> content of OUTPUT_DIR/<sku>/data.txt

scroll_vars  == <<last_height, heights>>
listing_vars == <<product_cards, skus, index, page>>
field_vars   == <<title, description, price, availability_text, in_stock, extra_attributes>>
image_vars   == <<image_urls, observed, thumbnails, outcomes>>
fs_vars      == <<dirs, webp, data>>
vars == <<pc, failure, quits, scroll_vars, listing_vars, field_vars, image_vars, fs_vars>>

Terminal == {"Done", "Failed"}

\* The locals of one loop iteration, before any of them is bound.
FreshFields == /\ title' = NoValue /\ description' = NoValue /\ price' = NoValue
               /\ availability_text' = NoValue /\ in_stock' = NoFlag
               /\ extra_attributes' = <<>>
FreshImages == /\ image_urls' = <<>> /\ observed' = <<>> /\ thumbnails' = 0
               /\ outcomes' = <<>>

Init == /\ pc = "Idle" /\ failure = "none" /\ quits = 0
        /\ last_height = 0 /\ heights = <<>>
        /\ product_cards = <<>> /\ skus = <<>> /\ index = 0 /\ page = NoPage
        /\ title = NoValue /\ description = NoValue /\ price = NoValue
        /\ availability_text = NoValue /\ in_stock = NoFlag /\ extra_attributes = <<>>
        /\ image_urls = <<>> /\ observed = <<>> /\ thumbnails = 0 /\ outcomes = <<>>
        /\ dirs = {} /\ webp = {} /\ data = <<>>

\* Abort without the finally clause: the exception ends the run and the
\* browser stays open.
AbortWithoutQuit(step) == /\ pc' = "Failed" /\ failure' = step /\ UNCHANGED quits

\* An exception leaves the try block: the finally clause quits the driver and
\* the exception ends the run.
Abort(step) == /\ pc' = "Failed" /\ failure' = step /\ quits' = quits + 1

\* The try block ends normally: the finally clause quits the driver.
Finish == /\ pc' = "Done" /\ quits' = quits + 1 /\ UNCHANGED failure

\* ------------------------------------------------------ 1) listing page
LoadListing ==
    /\ pc = "Idle"
    /\ pc' = "ListingLoaded"
    /\ UNCHANGED <<failure, quits, scroll_vars, listing_vars, field_vars, image_vars, fs_vars>>

LoadListingFail ==
    /\ pc = "Idle"
    /\ Abort("listing")
    /\ UNCHANGED <<scroll_vars, listing_vars, field_vars, image_vars, fs_vars>>

\* ------------------------------------------------- scroll_to_load_all
\* The exit test taken as "the page did not grow".
ScrollStopsWhenNotGrown(new_height, last) == new_height <= last

\* The loop's exit test.
ScrollStops(new_height, last) == new_height = last

ScrollStart ==
    /\ pc = "ListingLoaded"
    /\ \E h \in Heights : /\ last_height' = h
                          /\ heights' = <<h>>
    /\ pc' = "Scrolling"
    /\ UNCHANGED <<failure, quits, listing_vars, field_vars, image_vars, fs_vars>>

\* One pass of the while loop: scroll, read the height, compare.  After
\* MaxScrolls scrolls the page has no more content to load.
ScrollStep ==
    /\ pc = "Scrolling"
    /\ \E new_height \in Heights :
          /\ Len(heights) > MaxScrolls => new_height = last_height
          /\ heights' = Append(heights, new_height)
          /\ IF ScrollStops(new_height, last_height)
                THEN /\ pc' = "Paginated"
                     /\ UNCHANGED last_height
                ELSE /\ pc' = "Scrolling"
                     /\ last_height' = new_height
    /\ UNCHANGED <<failure, quits, listing_vars, field_vars, image_vars, fs_vars>>

ScrollFail ==
    /\ pc \in {"ListingLoaded", "Scrolling"}
    /\ Abort("scroll")
    /\ UNCHANGED <<scroll_vars, listing_vars, field_vars, image_vars, fs_vars>>

\* --------------------------------------------------- 2) collect the SKUs
FindCards ==
    /\ pc = "Paginated"
    /\ product_cards' \in SeqsUpTo(Cards, MaxCards)
    /\ pc' = "CardsFound"
    /\ last_height' = 0 /\ heights' = <<>>      \* scroll_to_load_all has returned
    /\ UNCHANGED <<failure, quits, skus, index, page, field_vars, image_vars, fs_vars>>

FindCardsFail ==
    /\ pc = "Paginated"
    /\ Abort("cards")
    /\ UNCHANGED <<scroll_vars, listing_vars, field_vars, image_vars, fs_vars>>

CollectSkus ==
    /\ pc = "CardsFound"
    /\ NoSpan \notin Range(product_cards)
    /\ skus' = [i \in DOMAIN product_cards |-> Strip(product_cards[i])]
    /\ pc' = "Iterating"
    /\ UNCHANGED <<failure, quits, scroll_vars, product_cards, index, page, field_vars,
                   image_vars, fs_vars>>

\* CollectSkusFail that also treats a listing without cards as an error.
CollectSkusFailOnEmpty ==
    /\ pc = "CardsFound"
    /\ NoSpan \in Range(product_cards) \/ product_cards = <<>>
    /\ Abort("sku")
    /\ UNCHANGED <<scroll_vars, listing_vars, field_vars, image_vars, fs_vars>>

CollectSkusFail ==
    /\ pc = "CardsFound"
    /\ NoSpan \in Range(product_cards)
    /\ Abort("sku")
    /\ UNCHANGED <<scroll_vars, listing_vars, field_vars, image_vars, fs_vars>>


\* ------------------------------------------------ 3) one SKU at a time
Sku == skus[index]

\* The for statement takes the next SKU and driver.get loads its page.  The
\* locals of the loop body are bound anew in every iteration.
LoopNext ==
    /\ pc \in {"Iterating", "MetadataWritten"}
    /\ index < Len(skus)
    /\ index' = index + 1
    /\ page' \in PageIds
    /\ pc' = "Navigated"
    /\ FreshFields /\ FreshImages
    /\ UNCHANGED <<failure, quits, scroll_vars, product_cards, skus, fs_vars>>

NavigateFail ==
    /\ pc \in {"Iterating", "MetadataWritten"}
    /\ index < Len(skus)
    /\ index' = index + 1
    /\ FreshFields /\ FreshImages
    /\ Abort("navigate")
    /\ UNCHANGED <<scroll_vars, product_cards, skus, page, fs_vars>>

\* The for statement finds no further SKU: the try block is left normally.
LoopExit ==
    /\ pc \in {"Iterating", "MetadataWritten"}
    /\ index = Len(skus)
    /\ Finish
    /\ UNCHANGED <<scroll_vars, listing_vars, field_vars, image_vars, fs_vars>>

WaitReady ==
    /\ pc = "Navigated"
    /\ pc' = "Ready"
    /\ UNCHANGED <<failure, quits, scroll_vars, listing_vars, field_vars, image_vars, fs_vars>>

WaitTimeout ==
    /\ pc = "Navigated"
    /\ Abort("timeout")
    /\ UNCHANGED <<scroll_vars, listing_vars, field_vars, image_vars, fs_vars>>

\* --- product metadata
ExtractTitle ==
    /\ pc = "Ready"
    /\ title' = Strip(PageOf(page).h1)
    /\ pc' = "TitleRead"
    /\ UNCHANGED <<failure, quits, scroll_vars, listing_vars, description, price,
                   availability_text, in_stock, extra_attributes, image_vars, fs_vars>>

ExtractTitleFail ==
    /\ pc = "Ready"
    /\ Abort("title")
    /\ UNCHANGED <<scroll_vars, listing_vars, field_vars, image_vars, fs_vars>>

ExtractDescription ==
    /\ pc = "TitleRead"
    /\ LET text == PageOf(page).description
       IN  description' = IF text = NoValue THEN <<>> ELSE Strip(text)
    /\ pc' = "DescriptionRead"
    /\ UNCHANGED <<failure, quits, scroll_vars, listing_vars, title, price,
                   availability_text, in_stock, extra_attributes, image_vars, fs_vars>>

ExtractPrice ==
    /\ pc = "DescriptionRead"
    /\ LET price_text == Strip(PageOf(page).price)
       IN  /\ ~SplitIsEmpty(price_text)
           /\ price' = FirstToken(price_text)
    /\ pc' = "PriceRead"
    /\ UNCHANGED <<failure, quits, scroll_vars, listing_vars, title, description,
                   availability_text, in_stock, extra_attributes, image_vars, fs_vars>>

\* No price element (NoSuchElementException), or a price text without a token
\* (IndexError).
ExtractPriceFail ==
    /\ pc = "DescriptionRead"
    /\ Abort("price")
    /\ UNCHANGED <<scroll_vars, listing_vars, field_vars, image_vars, fs_vars>>

Keyword == <<"l", "a", "g", "e", "r">>
StockFlag(text) == IF Contains(Keyword, text) THEN "YES" ELSE "NO"

ExtractAvailability ==
    /\ pc = "PriceRead"
    /\ availability_text' = Lower(PageOf(page).availability)
    /\ in_stock' = StockFlag(availability_text')
    /\ pc' = "StockRead"
    /\ UNCHANGED <<failure, quits, scroll_vars, listing_vars, title, description, price,
                   extra_attributes, image_vars, fs_vars>>

ExtractAvailabilityFail ==
    /\ pc = "PriceRead"
    /\ Abort("availability")
    /\ UNCHANGED <<scroll_vars, listing_vars, field_vars, image_vars, fs_vars>>

\* extra_attributes[label] = value on a dict that keeps insertion order.
DictPut(d, label, value) ==
    IF \E i \in DOMAIN d : d[i][1] = label
       THEN [i \in DOMAIN d |-> IF d[i][1] = label THEN <<label, value>> ELSE d[i]]
       ELSE Append(d, <<label, value>>)

RECURSIVE ReadRows(_, _)
ReadRows(rows, d) ==
    IF rows = <<>> THEN d
    ELSE LET cells == Head(rows)
         IN  ReadRows(Tail(rows),
                      IF Len(cells) = 2
                         THEN DictPut(d, RStripColon(Strip(cells[1])), Strip(cells[2]))
                         ELSE d)

\* The attribute table is optional: NoSuchElementException is swallowed.
ExtractAttributes ==
    /\ pc = "StockRead"
    /\ LET table == PageOf(page).table
       IN  extra_attributes' = IF table.found THEN ReadRows(table.rows, <<>>) ELSE <<>>
    /\ pc' = "Extracted"
    /\ UNCHANGED <<failure, quits, scroll_vars, listing_vars, title, description, price,
                   availability_text, in_stock, image_vars, fs_vars>>

\* --- image discovery
\* The main image: its src is appended, or the element is missing (a warning).
FindMainImage ==
    /\ pc = "Extracted"
    /\ \E src \in Urls \cup {NoImage} :
          /\ image_urls' = IF src = NoImage THEN <<>> ELSE <<src>>
          /\ observed'   = IF src = NoImage THEN <<>> ELSE <<src>>
    /\ pc' = "MainRead"
    /\ UNCHANGED <<failure, quits, scroll_vars, listing_vars, field_vars, thumbnails,
                   outcomes, fs_vars>>

FindThumbnails ==
    /\ pc = "MainRead"
    /\ thumbnails' \in 0..MaxThumbs
    /\ pc' = "Thumbnails"
    /\ UNCHANGED <<failure, quits, scroll_vars, listing_vars, field_vars, image_urls, observed,
                   outcomes, fs_vars>>

\* The append without the membership test.
AddUrlUnchecked(urls, src) == Append(urls, src)

\* if src not in image_urls: image_urls.append(src)
AddUrl(urls, src) == IF src \in Range(urls) THEN urls ELSE Append(urls, src)

\* One thumbnail: click, read the main image's src, add it when it is new.
ClickThumbnail ==
    /\ pc = "Thumbnails"
    /\ thumbnails > 0
    /\ \E src \in Urls : /\ image_urls' = AddUrl(image_urls, src)
                         /\ observed' = Append(observed, src)
    /\ thumbnails' = thumbnails - 1
    /\ UNCHANGED <<pc, failure, quits, scroll_vars, listing_vars, field_vars, outcomes, fs_vars>>

\* The click or the lookup raises: caught, the loop goes on.
ClickThumbnailFail ==
    /\ pc = "Thumbnails"
    /\ thumbnails > 0
    /\ thumbnails' = thumbnails - 1
    /\ UNCHANGED <<pc, failure, quits, scroll_vars, listing_vars, field_vars, image_urls,
                   observed, outcomes, fs_vars>>

\* Image discovery is over.
ThumbnailsDone ==
    /\ pc = "Thumbnails"
    /\ thumbnails = 0
    /\ pc' = "ImagesCollected"
    /\ observed' = <<>>
    /\ UNCHANGED <<failure, quits, scroll_vars, listing_vars, field_vars, image_urls,
                   thumbnails, outcomes, fs_vars>>

\* --- download and convert
MakeProductDir ==
    /\ pc = "ImagesCollected"
    /\ dirs' = dirs \cup {Sku}
    /\ pc' = "Saving"
    /\ UNCHANGED <<failure, quits, scroll_vars, listing_vars, field_vars, image_vars, webp, data>>

MakeProductDirFail ==
    /\ pc = "ImagesCollected"
    /\ Abort("mkdir")
    /\ UNCHANGED <<scroll_vars, listing_vars, field_vars, image_vars, fs_vars>>

\* enumerate(image_urls, start=1): the number of the image now attempted.
Idx == Len(outcomes) + 1

\* The images of this visit that were saved, by position in image_urls.
Saved == {k \in DOMAIN outcomes : outcomes[k]}

\* Numbering by the count of saved images instead of the position.
WebpNumberContiguous == Cardinality(Saved) + 1

\* f"{idx}.webp"
WebpNumber == Idx

\* requests.get, raise_for_status and convert_to_webp all succeed.
SaveImage ==
    /\ pc = "Saving"
    /\ Idx <= Len(image_urls)
    /\ webp' = webp \cup {<<Sku, WebpNumber>>}
    /\ outcomes' = Append(outcomes, TRUE)
    /\ UNCHANGED <<pc, failure, quits, scroll_vars, listing_vars, field_vars, image_urls,
                   observed, thumbnails, dirs, data>>

\* SaveImageFail without the except clause: the exception leaves the loop.
SaveImageFailPropagates ==
    /\ pc = "Saving"
    /\ Idx <= Len(image_urls)
    /\ Abort("image")
    /\ UNCHANGED <<scroll_vars, listing_vars, field_vars, image_vars, fs_vars>>

\* One of them raises: caught, the loop goes on with the next URL.
SaveImageFail ==
    /\ pc = "Saving"
    /\ Idx <= Len(image_urls)
    /\ outcomes' = Append(outcomes, FALSE)
    /\ UNCHANGED <<pc, failure, quits, scroll_vars, listing_vars, field_vars, image_urls,
                   observed, thumbnails, fs_vars>>

SaveImagesDone ==
    /\ pc = "Saving"
    /\ Idx > Len(image_urls)
    /\ pc' = "ImagesSaved"
    /\ UNCHANGED <<failure, quits, scroll_vars, listing_vars, field_vars, image_vars, fs_vars>>

\* --- data.txt
RECURSIVE AttributeLines(_)
AttributeLines(d) == IF d = <<>> THEN <<>>
                     ELSE <<d[1][1] \o <<": ">> \o d[1][2]>> \o AttributeLines(Tail(d))

MetadataLines(sku, t, p, stock, desc, attrs) ==
    << <<"SKU: ">> \o sku,
       <<"Title: ">> \o t,
       <<"Price: ">> \o p,
       <<"In stock: ", stock>>,
       <<>>,
       desc >> \o AttributeLines(attrs)

\* WriteMetadata run from inside the image loop.
WriteMetadataEarly ==
    /\ pc = "Saving"
    /\ data' = (Sku :> Join(MetadataLines(Sku, title, price, in_stock, description,
                                          extra_attributes))) @@ data
    /\ pc' = "MetadataWritten"
    /\ UNCHANGED <<failure, quits, scroll_vars, listing_vars, field_vars, image_vars, dirs, webp>>

WriteMetadata ==
    /\ pc = "ImagesSaved"
    /\ data' = (Sku :> Join(MetadataLines(Sku, title, price, in_stock, description,
                                          extra_attributes))) @@ data
    /\ pc' = "MetadataWritten"
    /\ UNCHANGED <<failure, quits, scroll_vars, listing_vars, field_vars, image_vars, dirs, webp>>

\* open() raises (the file is left as it was), or write() raises after open()
\* has truncated the file.
WriteMetadataFail ==
    /\ pc = "ImagesSaved"
    /\ \E truncated \in BOOLEAN :
          data' = IF truncated THEN (Sku :> <<>>) @@ data ELSE data
    /\ Abort("write")
    /\ UNCHANGED <<scroll_vars, listing_vars, field_vars, image_vars, dirs, webp>>

\* ------------------------------------------------------------ the run
Next ==
    \/ LoadListing \/ LoadListingFail
    \/ ScrollStart \/ ScrollStep \/ ScrollFail
    \/ FindCards \/ FindCardsFail \/ CollectSkus \/ CollectSkusFail
    \/ LoopNext \/ NavigateFail \/ LoopExit
    \/ WaitReady \/ WaitTimeout
    \/ ExtractTitle \/ ExtractTitleFail \/ ExtractDescription
    \/ ExtractPrice \/ ExtractPriceFail
    \/ ExtractAvailability \/ ExtractAvailabilityFail \/ ExtractAttributes
    \/ FindMainImage \/ FindThumbnails
    \/ ClickThumbnail \/ ClickThumbnailFail \/ ThumbnailsDone
    \/ MakeProductDir \/ MakeProductDirFail
    \/ SaveImage \/ SaveImageFail \/ SaveImagesDone
    \/ WriteMetadata \/ WriteMetadataFail

Spec == Init /\ [][Next]_vars

\* The script is one sequential thread: while a step is left, it is taken.
\* Every blocking call of the source is bounded (the fixed sleeps, the 20 s
\* wait, the 30 s request timeout).
FairSpec == Spec /\ WF_vars(Next)

\* ----------------------------------------------------------- properties
RequiredFields == {"title", "price", "availability"}

\* k: OUTPUT_DIR/<sku>/<k>.webp exists
FilesOf(sku) == {f[2] : f \in {g \in webp : g[1] = sku}}

\* No earlier position of the listing holds the current SKU.
FirstVisit == \A j \in 1..(index - 1) : skus[j] # Sku

NoDup(s) == \A i, j \in DOMAIN s : i # j => s[i] # s[j]

\* s without every element that repeats an earlier one.
RECURSIVE FirstOccurrencesFrom(_, _)
FirstOccurrencesFrom(s, i) ==
    IF i > Len(s) THEN <<>>
    ELSE IF \E j \in 1..(i - 1) : s[j] = s[i] THEN FirstOccurrencesFrom(s, i + 1)
    ELSE <<s[i]>> \o FirstOccurrencesFrom(s, i + 1)
FirstOccurrences(s) == FirstOccurrencesFrom(s, 1)

\* driver.quit() is called when the run ends, by any exit, and only then.
C1_QuitOnlyAtExit ==
    /\ quits \in {0, 1}
    /\ pc \in Terminal <=> quits = 1
    /\ pc = "Failed" => failure \in {"listing", "scroll", "cards", "sku", "navigate", "timeout",
                                     "title", "price", "availability", "mkdir", "write"}
    /\ pc = "Done" => failure = "none"

\* C1: once the browser session exists, every run ends with driver.quit()
\* called exactly once: on the normal exit after the last identifier and on
\* the exception of any step (and it is not called before the run ends).
C1_DriverQuitOnceOnEveryExit == []C1_QuitOnlyAtExit /\ <>[](quits = 1)

C1_Witness == pc = "Failed" /\ failure = "write" /\ quits = 1 /\ index = 2

\* C2: when a required field (title, price, availability) cannot be extracted
\* for one product, the run goes on, so that by the end of the run every
\* identifier of the listing has been navigated to.
C2_RunContinuesAfterRequiredFieldFailure ==
    (pc \in Terminal /\ failure \in RequiredFields) => index = Len(skus)

\* C3: an image that cannot be fetched or converted is only skipped: the run
\* never fails at an image, after a failed image the only step of the product
\* that can still end the run is the write of data.txt, every URL of the
\* product has been attempted when the image loop is left, data.txt is
\* written, and the next identifier can be taken.
C3_ImageFailureIsolated ==
    /\ failure # "image"
    /\ (pc = "Failed" /\ FALSE \in Range(outcomes)) => failure = "write"
    /\ pc \in {"ImagesSaved", "MetadataWritten"} => Len(outcomes) = Len(image_urls)
    /\ pc = "MetadataWritten" => /\ Sku \in DOMAIN data
                                 /\ data[Sku] # <<>>
                                 /\ index < Len(skus) => ENABLED LoopNext

C3_Witness ==
    /\ pc = "MetadataWritten"
    /\ outcomes = <<FALSE, TRUE>>
    /\ index < Len(skus)

\* C4 (as claimed): after the images of a product were saved, the files of
\* its directory are 1.webp .. N.webp for the N images that were saved.
C4_ContiguousNumbering ==
    (pc \in {"ImagesSaved", "MetadataWritten"} /\ FirstVisit)
        => FilesOf(Sku) = 1..Cardinality(Saved)

\* C4 (amended): an image file carries the position of its URL in the
\* discovery order: the k-th URL, when saved, is k.webp, and a failed URL
\* leaves its number unused.  On the first visit of an identifier the files
\* are exactly the positions saved.
C4_NumbersAreDiscoveryPositions ==
    pc \in {"Saving", "ImagesSaved", "MetadataWritten"} =>
        /\ Saved \subseteq FilesOf(Sku)
        /\ FirstVisit => FilesOf(Sku) = Saved

C4_Witness ==
    /\ pc = "ImagesSaved"
    /\ FirstVisit
    /\ outcomes = <<FALSE, TRUE>>
    /\ FilesOf(Sku) = {2}

\* The first four lines of a data.txt follow the template for this SKU.
HeaderOf(content, sku) ==
    LET lines == SplitLines(content)
    IN  /\ Len(lines) >= 4
        /\ lines[1] = <<"SKU: ">> \o sku
        /\ lines[2] # <<>> /\ lines[2][1] = "Title: "
        /\ lines[3] # <<>> /\ lines[3][1] = "Price: "
        /\ lines[4] \in {<<"In stock: ", "YES">>, <<"In stock: ", "NO">>}

\* C5: at the end of a run every identifier processed has its directory, with
\* a data.txt whose first four lines are "SKU: <id>", "Title: <title>",
\* "Price: <price>", "In stock: YES|NO" (for the last product: with the title,
\* price and flag extracted for it).
C5_HeaderLinesForEveryProcessedSku ==
    pc = "Done" =>
        /\ \A i \in 1..Len(skus) : /\ skus[i] \in dirs
                                   /\ skus[i] \in DOMAIN data
                                   /\ HeaderOf(data[skus[i]], skus[i])
        /\ index >= 1 =>
              LET lines == SplitLines(data[Sku])
              IN  /\ lines[2] = <<"Title: ">> \o title
                  /\ lines[3] = <<"Price: ">> \o price
                  /\ lines[4] = <<"In stock: ", in_stock>>

\* C6: the URL list of a product never holds a URL twice, and it holds the
\* srcs read so far in the order of their first reading, the main image's
\* src first.
C6_NoDuplicateUrls ==
    /\ NoDup(image_urls)
    /\ pc \in {"MainRead", "Thumbnails"} => image_urls = FirstOccurrences(observed)
    /\ pc = "MainRead" => Len(observed) <= 1

C6_Witness ==
    /\ pc = "Thumbnails"
    /\ thumbnails = 0
    /\ observed = <<"u1", "u2", "u1">>
    /\ image_urls = <<"u1", "u2">>

\* C7: data.txt says "In stock: YES" for the availability text "Finns i lager"
\* and "In stock: NO" for the availability text "Slut i lager".
C7_StockFlagMatchesAvailability ==
    pc = "MetadataWritten" =>
        /\ availability_text = Lower(FinnsILager)
              => <<"In stock: ", "YES">> \in Range(SplitLines(data[Sku]))
        /\ availability_text = Lower(SlutILager)
              => <<"In stock: ", "NO">> \in Range(SplitLines(data[Sku]))

\* The listing was searched for cards and held none.
ZeroCards ==
    /\ product_cards = <<>>
    /\ pc \notin {"Idle", "ListingLoaded", "Scrolling", "Paginated"}
    /\ ~(pc = "Failed" /\ failure \in {"listing", "scroll", "cards"})

\* C8: with no product card on the listing the SKU sequence is empty, no
\* product page is loaded, nothing is created under the output root, the only
\* step left is the normal end of the run, and the run ends Done without an
\* error and with the driver quit.
C8_EmptyListing ==
    ZeroCards =>
        /\ pc \in {"CardsFound", "Iterating", "Done"}
        /\ skus = <<>> /\ index = 0 /\ page = NoPage
        /\ dirs = {} /\ webp = {} /\ DOMAIN data = {}
        /\ pc = "CardsFound" => ENABLED CollectSkus /\ ~ENABLED CollectSkusFail
        /\ pc = "Iterating" => ENABLED LoopExit /\ ~ENABLED LoopNext /\ ~ENABLED NavigateFail
        /\ pc = "Done" => failure = "none" /\ quits = 1

C8_Witness == ZeroCards /\ pc = "Done"

\* C9: scroll_to_load_all scrolls at least once, goes on while every scroll
\* changes the height, and returns at the first scroll that leaves the height
\* as it was before that scroll.
C9_ScrollStopsAtFirstStableHeight ==
    /\ pc = "Scrolling" =>
          /\ Len(heights) >= 1
          /\ last_height = heights[Len(heights)]
          /\ \A i \in 1..(Len(heights) - 1) : heights[i] # heights[i + 1]
    /\ pc = "Paginated" =>
          /\ Len(heights) >= 2
          /\ heights[Len(heights)] = heights[Len(heights) - 1]
          /\ \A i \in 1..(Len(heights) - 2) : heights[i] # heights[i + 1]

C9_Witness ==
    /\ pc = "Paginated"
    /\ Len(heights) = 3
    /\ heights[1] # heights[2]

\* The step of the run's state machine a program point belongs to.
PhaseOf(p) ==
    CASE p \in {"ListingLoaded", "Scrolling"} -> "ListingLoaded"
      [] p \in {"Paginated", "CardsFound", "Iterating"} -> "Paginated"
      [] p \in {"Navigated", "Ready", "TitleRead", "DescriptionRead", "PriceRead", "StockRead"}
            -> "Navigated"
      [] p \in {"Extracted", "MainRead", "Thumbnails"} -> "Extracted"
      [] p \in {"ImagesCollected", "Saving"} -> "ImagesCollected"
      [] OTHER -> p

PhaseOrder ==
    {<<"Idle", "ListingLoaded">>, <<"ListingLoaded", "Paginated">>,
     <<"Paginated", "Navigated">>, <<"Paginated", "Done">>,
     <<"Navigated", "Extracted">>, <<"Extracted", "ImagesCollected">>,
     <<"ImagesCollected", "ImagesSaved">>, <<"ImagesSaved", "MetadataWritten">>,
     <<"MetadataWritten", "Navigated">>, <<"MetadataWritten", "Done">>}

\* One step of a run that keeps the order of C10.
C10_Step ==
    /\ PhaseOf(pc') # PhaseOf(pc) =>
          \/ pc' = "Failed"
          \/ <<PhaseOf(pc), PhaseOf(pc')>> \in PhaseOrder
    \* identifiers are taken in listing order, each after the metadata of the
    \* one before it was written
    /\ index' # index =>
          /\ index' = index + 1
          /\ index' <= Len(skus)
          /\ index >= 1 => pc = "MetadataWritten" /\ Sku \in DOMAIN data
    \* data.txt only after every image URL was attempted
    /\ (data' # data /\ pc' # "Failed") =>
          /\ Len(outcomes) = Len(image_urls)
          /\ pc' = "MetadataWritten"
    \* the directory only after the required fields
    /\ (pc' = "Saving" /\ pc # "Saving") =>
          /\ title # NoValue /\ price # NoValue /\ in_stock # NoFlag
          /\ outcomes = <<>>
    \* images only into the directory made in this iteration
    /\ webp' # webp => pc = "Saving" /\ Sku \in dirs

\* C10: a run takes its steps in the order Idle, ListingLoaded, Paginated,
\* then per identifier, in listing order, Navigated, Extracted,
\* ImagesCollected, ImagesSaved, MetadataWritten, then Done; data.txt is
\* written only after all image URLs were attempted, the directory is made
\* only after the required fields were extracted, and no product is begun
\* before the metadata of the previous one was written.
C10_FixedStepOrder == [][C10_Step]_vars

C10_Witness ==
    /\ pc = "Done"
    /\ Len(skus) = 2
    /\ skus[1] # skus[2]
    /\ \A i \in 1..2 : skus[i] \in DOMAIN data /\ data[skus[i]] # <<>>
====
